---- MODULE Spec2Model ----
(***************************************************************************)
(* Model of the MRG32K3A host generator (rocrand_mrg32k3a) and of its two  *)
(* device kernels, init_engines_kernel and generate_kernel                 *)
(* (library/src/rng/mrg32k3a.hpp).                                         *)
(*                                                                         *)
(* The handle's kernels are submitted to one stream, so they execute in    *)
(* submission order; a host call is modelled together with the kernels it  *)
(* dispatches.  Raw draws and transformed values are kept as terms: a raw  *)
(* draw is an element of the master stream of a seed, a transformed value  *)
(* is "component o of distribution d applied to these draws".              *)
(***************************************************************************)
EXTENDS Integers, Sequences, FiniteSets, TLC

\* ------------------------------------------------------------------ bounds
NumLanes == 2        \* s_threads * s_blocks, scaled down
MaxN == 9            \* largest data_size of a generate call (kernel runs)
MaxHostN == 2        \* largest data_size in the handle life-cycle runs
MaxAddr == 3         \* buffer start addresses, in elements: 0..MaxAddr
MaxHostAddr == 1     \* buffer start addresses in the handle life-cycle runs
MaxOffset == 0       \* offsets given to the constructor and to set_offset
MaxSeed == 1         \* seeds given to the constructor and to set_seed
MaxDrawn == 2        \* draws of one lane on one seeding that the runs explore
SubseqLen == 16      \* length of one lane's sub-stream of the master stream
MaxDispatched == 4   \* kernels dispatched to the stream in one run

\* --------------------------------------------------------------- constants
ROCRAND_MRG32K3A_DEFAULT_SEED == 12345

Lanes == 0 .. (NumLanes - 1)
SeedInputs == 0 .. MaxSeed
Offsets == 0 .. MaxOffset
Addrs == 0 .. MaxAddr
Lambdas == {0, 1}

Min(a, b) == IF a < b THEN a ELSE b

\* ------------------------------------------------------------ status codes
ROCRAND_STATUS_SUCCESS == "ROCRAND_STATUS_SUCCESS"
ROCRAND_STATUS_LAUNCH_FAILURE == "ROCRAND_STATUS_LAUNCH_FAILURE"
ROCRAND_STATUS_OUT_OF_RANGE == "ROCRAND_STATUS_OUT_OF_RANGE"

\* ------------------------------------------------------- recurrence engine
\* An engine is a position in the master stream of its seed.
mrg32k3a_device_engine(seed, engine_id, offset) ==
    [seed |-> seed, pos |-> engine_id * SubseqLen + offset]

\* engine(): the draw returned and the advanced engine.
engine_draw(e) == [seed |-> e.seed, k |-> e.pos]
engine_next(e) == [e EXCEPT !.pos = @ + 1]

\* What a freshly allocated, never seeded engine slot may hold.
UninitEngines == {[seed |-> s, pos |-> 0] : s \in {0, 1}}

\* ---------------------------------------------------------- distributions
mrg_uniform_distribution_uint == [name |-> "uniform_uint", input_width |-> 1, output_width |-> 1, param |-> 0]
mrg_uniform_distribution_uchar == [name |-> "uniform_uchar", input_width |-> 1, output_width |-> 4, param |-> 0]
mrg_uniform_distribution_ushort == [name |-> "uniform_ushort", input_width |-> 1, output_width |-> 2, param |-> 0]
mrg_normal_distribution_float == [name |-> "normal_float", input_width |-> 2, output_width |-> 2, param |-> 0]
poisson_distribution(lambda) == [name |-> "poisson", input_width |-> 1, output_width |-> 1, param |-> lambda]

Distributions ==
    { mrg_uniform_distribution_uint, mrg_uniform_distribution_uchar,
      mrg_uniform_distribution_ushort, mrg_normal_distribution_float }

NoDistribution == [name |-> "none", input_width |-> 0, output_width |-> 0, param |-> 0]

\* distribution(input, output): output[o], o = 1..output_width
distribution(d, input) ==
    [o \in 1 .. d.output_width |-> [d |-> d.name, param |-> d.param, in |-> input, o |-> o - 1]]

\* ---------------------------------------------------------------- kernels
\* As init_engines_kernel, but every lane is seeded with sub-stream index 0.
init_engines_kernel_one_stream(engines, seed, offset) ==
    [engine_id \in Lanes |-> mrg32k3a_device_engine(seed, 0, offset)]

\* As init_engines_kernel, but the grid is one lane short of the array.
init_engines_kernel_short_grid(engines, seed, offset) ==
    [engine_id \in Lanes |->
        IF engine_id = NumLanes - 1 THEN engines[engine_id]
        ELSE mrg32k3a_device_engine(seed, engine_id, offset)]

\* init_engines_kernel: every lane seeds engines[engine_id].
init_engines_kernel(engines, seed, offset) ==
    [engine_id \in Lanes |-> mrg32k3a_device_engine(seed, engine_id, offset)]

\* As misalignment, but without the reduction that maps output_width to 0.
misalignment_unreduced(addr, output_width) ==
    output_width - (addr % output_width)

\* addr is uintptr / sizeof(T)
misalignment(addr, output_width) ==
    (output_width - (addr % output_width)) % output_width

head_size(n, mis) == Min(n, mis)

\* As tail_size, but taken from n without the head.
tail_size_of_n(n, hs, output_width) == n % output_width

tail_size(n, hs, output_width) == (n - hs) % output_width

vec_n(n, hs, output_width) == (n - hs) \div output_width

\* for(i < input_width) input[i] = engine();
RECURSIVE fill_input(_, _, _)
fill_input(e, input, left) ==
    IF left = 0 THEN [engine |-> e, input |-> input]
    ELSE fill_input(engine_next(e), Append(input, engine_draw(e)), left - 1)

\* One transform invocation of a lane: draw, transform, count.
invoke(st, d) ==
    LET g == fill_input(st.engine, <<>>, d.input_width)
    IN  [st EXCEPT !.engine = g.engine,
                   !.output = distribution(d, g.input),
                   !.draws = @ + d.input_width,
                   !.calls = @ + 1]

\* The stores of one invocation: output[o] for o < count, at base + o.
stores(st, d, base, count, region) ==
    [o \in 1 .. Min(count, d.output_width) |->
        [lane |-> st.engine_id, pos |-> base + (o - 1),
         val |-> st.output[o], region |-> region]]

\* while(index < vec_n) { ...; vec_data[index] = output; index += stride; }
RECURSIVE vec_loop(_, _, _, _, _)
vec_loop(st, d, mis, vn, stride) ==
    IF st.index < vn
    THEN LET s1 == invoke(st, d)
             s2 == [s1 EXCEPT
                      !.writes = @ \o stores(s1, d, mis + s1.index * d.output_width,
                                             d.output_width, "vec"),
                      !.index = @ + stride]
         IN  vec_loop(s2, d, mis, vn, stride)
    ELSE st

\* As head_write, but the transform is invoked whether or not there is a head.
head_write_always_invokes(st, d, hs) ==
    LET s1 == invoke(st, d)
    IN  [s1 EXCEPT !.writes = @ \o stores(s1, d, 0, hs, "head")]

\* if(head_size > 0) { ...; data[o] = output[o] for o < head_size }
head_write(st, d, hs) ==
    IF hs > 0
    THEN LET s1 == invoke(st, d)
         IN  [s1 EXCEPT !.writes = @ \o stores(s1, d, 0, hs, "head")]
    ELSE st

\* if(tail_size > 0) { ...; data[n - tail_size + o] = output[o] for o < tail_size }
tail_write(st, d, n, ts) ==
    IF ts > 0
    THEN LET s1 == invoke(st, d)
         IN  [s1 EXCEPT !.writes = @ \o stores(s1, d, n - ts, ts, "tail")]
    ELSE st

\* As head_tail, but every lane past the vectorized region stores head and tail.
head_tail_every_lane(st, d, n, hs, ts, vn) ==
    IF d.output_width > 1
    THEN tail_write(head_write(st, d, hs), d, n, ts)
    ELSE st

\* if(output_width > 1 && index == vec_n) { head; tail }
head_tail(st, d, n, hs, ts, vn) ==
    IF d.output_width > 1 /\ st.index = vn
    THEN tail_write(head_write(st, d, hs), d, n, ts)
    ELSE st

\* One lane of generate_kernel, from loading its engine to saving it.
generate_lane(engines, engine_id, addr, n, d) ==
    LET mis == misalignment(addr, d.output_width)
        hs == head_size(n, mis)
        ts == tail_size(n, hs, d.output_width)
        vn == vec_n(n, hs, d.output_width)
        st0 == [engine_id |-> engine_id, index |-> engine_id,
                engine |-> engines[engine_id], output |-> <<>>,
                writes |-> <<>>, draws |-> 0, calls |-> 0]
    IN  head_tail(vec_loop(st0, d, mis, vn, NumLanes), d, n, hs, ts, vn)

RECURSIVE concat_writes(_, _)
concat_writes(lanes, id) ==
    IF id = NumLanes THEN <<>>
    ELSE lanes[id].writes \o concat_writes(lanes, id + 1)

\* As generate_kernel, but no lane saves its engine at the end.
generate_kernel_no_save(engines, addr, n, d) ==
    LET lanes == [id \in Lanes |-> generate_lane(engines, id, addr, n, d)]
    IN  [engines |-> engines,
         writes |-> concat_writes(lanes, 0),
         draws |-> [id \in Lanes |-> lanes[id].draws],
         calls |-> [id \in Lanes |-> lanes[id].calls]]

\* generate_kernel over the whole grid.
generate_kernel(engines, addr, n, d) ==
    LET lanes == [id \in Lanes |-> generate_lane(engines, id, addr, n, d)]
    IN  [engines |-> [id \in Lanes |-> lanes[id].engine],
         writes |-> concat_writes(lanes, 0),
         draws |-> [id \in Lanes |-> lanes[id].draws],
         calls |-> [id \in Lanes |-> lanes[id].calls]]

\* The buffer data[0 .. n-1] after the stores, in store order.
Unwritten == [d |-> "unwritten", param |-> 0, in |-> <<>>, o |-> 0]

RECURSIVE store_all(_, _, _)
store_all(data, writes, i) ==
    IF i > Len(writes) THEN data
    ELSE store_all(IF writes[i].pos \in DOMAIN data
                   THEN [data EXCEPT ![writes[i].pos] = writes[i].val]
                   ELSE data,
                   writes, i + 1)

data_after(writes, n) == store_all([k \in 0 .. (n - 1) |-> Unwritten], writes, 1)

\* The launch dimensions dim3(s_blocks), dim3(s_threads): every way of
\* splitting the lanes into blocks of equal size.
GridShapes ==
    {sh \in [s_blocks : 1 .. NumLanes, s_threads : 1 .. NumLanes] :
        sh.s_blocks * sh.s_threads = NumLanes}

\* m_engines_size(s_threads * s_blocks)
m_engines_size(sh) == sh.s_threads * sh.s_blocks

\* hipBlockIdx_x * hipBlockDim_x + hipThreadIdx_x
engine_id_of(sh, hipBlockIdx_x, hipThreadIdx_x) ==
    hipBlockIdx_x * sh.s_threads + hipThreadIdx_x

\* The threads of a launch, as <<block, thread>>.
Threads(sh) == (0 .. (sh.s_blocks - 1)) \X (0 .. (sh.s_threads - 1))

\* ------------------------------------------------- lanes of a kernel run
\* A lane's locals at its entry to generate_kernel, its engine loaded.
lane_entry(engines, engine_id) ==
    [engine_id |-> engine_id, index |-> engine_id,
     engine |-> engines[engine_id], output |-> <<>>,
     writes |-> <<>>, draws |-> 0, calls |-> 0]

\* One pass through the body of while(index < vec_n).
loop_iteration(st, d, mis, stride) ==
    LET s1 == invoke(st, d)
    IN  [s1 EXCEPT
           !.writes = @ \o stores(s1, d, mis + s1.index * d.output_width,
                                  d.output_width, "vec"),
           !.index = @ + stride]

\* As designated, but every lane that has left the loop qualifies.
designated_every_lane(st, d, vn) == d.output_width > 1

\* As designated, but the head and tail fall to the first lane of the grid.
designated_first_lane(st, d, vn) == d.output_width > 1 /\ st.engine_id = 0

\* if(output_width > 1 && index == vec_n)
designated(st, d, vn) == d.output_width > 1 /\ st.index = vn

\* No kernel in flight.
NoGrid ==
    [running |-> FALSE, addr |-> 0, n |-> 0, d |-> NoDistribution,
     start |-> <<>>, pc |-> <<>>, lane |-> <<>>, data |-> <<>>, writers |-> <<>>]

\* The grid of generate_kernel as dispatched: every lane at its entry, the
\* buffer as the caller left it, no position stored to yet.
dispatched(engines, addr, n, d) ==
    [running |-> TRUE, addr |-> addr, n |-> n, d |-> d,
     start |-> engines,
     pc |-> [id \in Lanes |-> "loop"],
     lane |-> [id \in Lanes |-> lane_entry(engines, id)],
     data |-> [k \in 0 .. (n - 1) |-> Unwritten],
     writers |-> [k \in 0 .. (n - 1) |-> {}]]

\* The grid after lane id moved from st to st1 and to position pc: the stores
\* it made on the way reach the buffer.
lane_moved(g, id, st1, pc) ==
    LET made == SubSeq(st1.writes, Len(g.lane[id].writes) + 1, Len(st1.writes))
    IN  [g EXCEPT !.lane[id] = st1,
                  !.pc[id] = pc,
                  !.data = store_all(@, made, 1),
                  !.writers = [k \in DOMAIN @ |->
                                  IF \E i \in DOMAIN made : made[i].pos = k
                                  THEN @[k] \cup {id} ELSE @[k]]]

\* ------------------------------------------------------------ host handle
\* rocrand_mrg32k3a(seed, offset, stream); memory is what hipMalloc returned.
rocrand_mrg32k3a(seed, offset, memory) ==
    [m_seed |-> IF seed = 0 THEN ROCRAND_MRG32K3A_DEFAULT_SEED ELSE seed,
     m_offset |-> offset,
     m_engines_initialized |-> FALSE,
     m_engines |-> memory,
     m_poisson |-> 0]

\* As reset, but the engines stay marked as initialized.
reset_keeps_engines(h) == h

reset(h) == [h EXCEPT !.m_engines_initialized = FALSE]

\* As set_seed, but the engines stay marked as initialized.
set_seed_keeps_engines(h, seed) ==
    [h EXCEPT !.m_seed = IF seed = 0 THEN ROCRAND_MRG32K3A_DEFAULT_SEED ELSE seed]

\* As set_seed, but a zero seed is stored as given.
set_seed_as_given(h, seed) ==
    [h EXCEPT !.m_seed = seed, !.m_engines_initialized = FALSE]

set_seed(h, seed) ==
    [h EXCEPT !.m_seed = IF seed = 0 THEN ROCRAND_MRG32K3A_DEFAULT_SEED ELSE seed,
              !.m_engines_initialized = FALSE]

\* As set_offset, but the engines stay marked as initialized.
set_offset_keeps_engines(h, offset) == [h EXCEPT !.m_offset = offset]

set_offset(h, offset) ==
    [h EXCEPT !.m_offset = offset, !.m_engines_initialized = FALSE]

\* What a host call reports: the handle after it, its status, the kernels it
\* dispatched, and what the generation kernel read, drew and stored.
Result(h, status, kernels, init_args, gen_start, k) ==
    [h |-> h, status |-> status, kernels |-> kernels, init_args |-> init_args,
     gen_start |-> gen_start, writes |-> k.writes, draws |-> k.draws, calls |-> k.calls]

NoKernel ==
    [writes |-> <<>>, draws |-> [id \in Lanes |-> 0], calls |-> [id \in Lanes |-> 0]]

\* As init, but the kernel is launched whether or not the engines are initialized.
init_always_launches(h, launch_ok) ==
    IF ~launch_ok
    THEN Result(h, ROCRAND_STATUS_LAUNCH_FAILURE, <<>>, <<>>, <<>>, NoKernel)
    ELSE Result([h EXCEPT !.m_engines = init_engines_kernel(h.m_engines, h.m_seed, h.m_offset),
                          !.m_engines_initialized = TRUE],
                ROCRAND_STATUS_SUCCESS, <<"init_engines_kernel">>,
                <<[seed |-> h.m_seed, offset |-> h.m_offset]>>, <<>>, NoKernel)

\* As init, but the engines are marked as initialized before the launch is checked.
init_marks_before_check(h, launch_ok) ==
    IF h.m_engines_initialized
    THEN Result(h, ROCRAND_STATUS_SUCCESS, <<>>, <<>>, <<>>, NoKernel)
    ELSE IF ~launch_ok
    THEN Result([h EXCEPT !.m_engines_initialized = TRUE],
                ROCRAND_STATUS_LAUNCH_FAILURE, <<>>, <<>>, <<>>, NoKernel)
    ELSE Result([h EXCEPT !.m_engines = init_engines_kernel(h.m_engines, h.m_seed, h.m_offset),
                          !.m_engines_initialized = TRUE],
                ROCRAND_STATUS_SUCCESS, <<"init_engines_kernel">>,
                <<[seed |-> h.m_seed, offset |-> h.m_offset]>>, <<>>, NoKernel)

\* init(); launch_ok: the initialization kernel could be dispatched.
init(h, launch_ok) ==
    IF h.m_engines_initialized
    THEN Result(h, ROCRAND_STATUS_SUCCESS, <<>>, <<>>, <<>>, NoKernel)
    ELSE IF ~launch_ok
    THEN Result(h, ROCRAND_STATUS_LAUNCH_FAILURE, <<>>, <<>>, <<>>, NoKernel)
    ELSE Result([h EXCEPT !.m_engines = init_engines_kernel(h.m_engines, h.m_seed, h.m_offset),
                          !.m_engines_initialized = TRUE],
                ROCRAND_STATUS_SUCCESS, <<"init_engines_kernel">>,
                <<[seed |-> h.m_seed, offset |-> h.m_offset]>>, <<>>, NoKernel)

\* generate(data, data_size, distribution)
generate(h, addr, n, d, init_ok, gen_ok) ==
    LET i == init(h, init_ok)
    IN  IF i.status # ROCRAND_STATUS_SUCCESS THEN i
        ELSE IF ~gen_ok
        THEN [i EXCEPT !.status = ROCRAND_STATUS_LAUNCH_FAILURE]
        ELSE LET k == generate_kernel(i.h.m_engines, addr, n, d)
             IN  Result([i.h EXCEPT !.m_engines = k.engines],
                        ROCRAND_STATUS_SUCCESS,
                        Append(i.kernels, "generate_kernel"),
                        i.init_args, <<i.h.m_engines>>, k)

\* poisson_distribution_manager::set_lambda: rejects lambda <= 0, otherwise
\* rebuilds the table when lambda differs from the cached one.
set_lambda(m_poisson, lambda) ==
    IF lambda <= 0
    THEN [thrown |-> TRUE, status |-> ROCRAND_STATUS_OUT_OF_RANGE, m_poisson |-> m_poisson]
    ELSE [thrown |-> FALSE, status |-> ROCRAND_STATUS_SUCCESS, m_poisson |-> lambda]

\* As generate_poisson, but the status thrown by set_lambda is not returned.
generate_poisson_uncaught(h, addr, n, lambda, init_ok, gen_ok) ==
    LET p == set_lambda(h.m_poisson, lambda)
    IN  generate([h EXCEPT !.m_poisson = p.m_poisson], addr, n,
                 poisson_distribution(p.m_poisson), init_ok, gen_ok)

generate_poisson(h, addr, n, lambda, init_ok, gen_ok) ==
    LET p == set_lambda(h.m_poisson, lambda)
    IN  IF p.thrown
        THEN Result(h, p.status, <<>>, <<>>, <<>>, NoKernel)
        ELSE generate([h EXCEPT !.m_poisson = p.m_poisson], addr, n,
                      poisson_distribution(p.m_poisson), init_ok, gen_ok)

\* ------------------------------------------------------------------ state
VARIABLES
    m_seed, m_offset, m_engines_initialized, m_engines, m_poisson,  \* the handle
    last,       \* the most recent host call and what it did
    seeded,     \* arguments of the most recent init_engines_kernel run
    orig,       \* the first generation run after the most recent seeding
    grid,       \* the generation kernel in flight, lane by lane
    m_stream    \* the kernels dispatched and not yet executed, in order

vars == <<m_seed, m_offset, m_engines_initialized, m_engines, m_poisson, last, seeded, orig,
          grid, m_stream>>

Handle ==
    [m_seed |-> m_seed, m_offset |-> m_offset,
     m_engines_initialized |-> m_engines_initialized,
     m_engines |-> m_engines, m_poisson |-> m_poisson]

GenerateOps == {"generate", "generate_poisson"}

\* The record kept of a call: op and arguments with the call's report.
Call(op, arg, addr, n, d, r) ==
    [op |-> op, arg |-> arg, addr |-> addr, n |-> n, d |-> d,
     status |-> r.status, kernels |-> r.kernels, init_args |-> r.init_args,
     gen_start |-> r.gen_start, writes |-> r.writes, draws |-> r.draws,
     calls |-> r.calls, prev |-> "", ref |-> <<>>]

Quiet(h) == Result(h, ROCRAND_STATUS_SUCCESS, <<>>, <<>>, <<>>, NoKernel)

RanInit(c) == \E i \in DOMAIN c.kernels : c.kernels[i] = "init_engines_kernel"
RanGenerate(c) == \E i \in DOMAIN c.kernels : c.kernels[i] = "generate_kernel"

\* A generation run: its arguments, its values, and whether it is still the
\* only run since the seeding.
Run(c, seed, offset) ==
    [seed |-> seed, offset |-> offset, addr |-> c.addr, n |-> c.n, d |-> c.d,
     out |-> data_after(c.writes, c.n), only |-> TRUE]

\* The handle and the bookkeeping after a call c that left the handle as h.
\* The first run after a seeding, and the call before this one, are remembered
\* only where track is set.
Becomes(h, c, track) ==
    /\ m_seed' = h.m_seed
    /\ m_offset' = h.m_offset
    /\ m_engines_initialized' = h.m_engines_initialized
    /\ m_engines' = h.m_engines
    /\ m_poisson' = h.m_poisson
    /\ last' = IF track THEN [c EXCEPT !.prev = last.op, !.ref = orig] ELSE c
    /\ seeded' = IF RanInit(c) THEN c.init_args ELSE seeded
    /\ orig' = IF ~track THEN orig
               ELSE IF RanGenerate(c) /\ (RanInit(c) \/ orig = <<>>)
               THEN <<Run(c, h.m_seed, h.m_offset)>>
               ELSE IF RanInit(c) THEN <<>>
               ELSE IF RanGenerate(c) THEN <<[orig[1] EXCEPT !.only = FALSE]>>
               ELSE orig
    /\ grid' = grid
    /\ m_stream' = m_stream

\* Draws a lane has made since its engine was seeded, in handle h.
Drawn(h, id) ==
    h.m_engines[id].pos - mrg32k3a_device_engine(h.m_seed, id, h.m_offset).pos

\* No lane of h has drawn more than max_drawn, which is all the runs explore.
MayDraw(h, max_drawn) ==
    h.m_engines_initialized => \A id \in Lanes : Drawn(h, id) <= max_drawn

\* <<the initialization launch succeeds, the generation launch succeeds>>
LaunchOutcomes == {<<TRUE, TRUE>>, <<TRUE, FALSE>>, <<FALSE, FALSE>>}

\* ------------------------------------------------------------- the stream
\* hipLaunchKernelGGL(..., m_stream, args): the kernel joins the stream with
\* its arguments as passed; the host call returns without waiting for it.
\* m_stream.pending are the kernels not yet executed, oldest first;
\* m_stream.sync holds, once a kernel has been dispatched, the engines as
\* they would be had every kernel run to its end inside the call that
\* dispatched it; m_stream.done tells of the generation kernel executed
\* last how many values it stored and whether the host made calls while it
\* was pending; m_stream.dispatched counts the kernels dispatched so far.
idle_stream == [pending |-> <<>>, sync |-> <<>>, done |-> <<>>, dispatched |-> 0]

\* A dispatched kernel.  expect: the stores of the kernel had it run to its
\* end inside the call; behind: the host has made a call since.
dispatched_kernel(name, seed, offset, addr, n, d, expect) ==
    [kernel |-> name, seed |-> seed, offset |-> offset,
     addr |-> addr, n |-> n, d |-> d, expect |-> expect, behind |-> FALSE]

\* The kernels a host call with report r dispatched, in dispatch order.
dispatches(r, addr, n, d) ==
    [i \in DOMAIN r.kernels |->
        IF r.kernels[i] = "init_engines_kernel"
        THEN dispatched_kernel(r.kernels[i], r.init_args[1].seed, r.init_args[1].offset,
                               0, 0, NoDistribution, <<>>)
        ELSE dispatched_kernel(r.kernels[i], 0, 0, addr, n, d, r.writes)]

\* The pending kernels after one more host call was made.
overtaken(pending) ==
    [i \in DOMAIN pending |-> [pending[i] EXCEPT !.behind = TRUE]]

\* As execute, but the initialization kernel reads the handle's seed and
\* offset when it runs instead of taking them as passed at the launch.
execute_reads_members(k, engines) ==
    IF k.kernel = "init_engines_kernel"
    THEN [engines |-> init_engines_kernel(engines, m_seed, m_offset), writes |-> <<>>]
    ELSE LET g == generate_kernel(engines, k.addr, k.n, k.d)
         IN  [engines |-> g.engines, writes |-> g.writes]

\* The device runs kernel k on the engines in device memory.
execute(k, engines) ==
    IF k.kernel = "init_engines_kernel"
    THEN [engines |-> init_engines_kernel(engines, k.seed, k.offset), writes |-> <<>>]
    ELSE LET g == generate_kernel(engines, k.addr, k.n, k.d)
         IN  [engines |-> g.engines, writes |-> g.writes]

\* ---------------------------------------------------------------- actions
Constructed(seed, offset, memory) ==
    LET h == rocrand_mrg32k3a(seed, offset, memory)
    IN  /\ m_seed = h.m_seed
        /\ m_offset = h.m_offset
        /\ m_engines_initialized = h.m_engines_initialized
        /\ m_engines = h.m_engines
        /\ m_poisson = h.m_poisson
        /\ last = Call("construct", seed, 0, 0, NoDistribution, Quiet(h))
        /\ seeded = <<>>
        /\ orig = <<>>
        /\ grid = NoGrid
        /\ m_stream = idle_stream

Init ==
    \E seed \in SeedInputs, offset \in Offsets, memory \in UninitEngines :
        Constructed(seed, offset, [id \in Lanes |-> memory])

DoReset(track) ==
    LET h == reset(Handle)
    IN  Becomes(h, Call("reset", 0, 0, 0, NoDistribution, Quiet(h)), track)

DoSetSeed(track) ==
    \E seed \in SeedInputs :
        LET h == set_seed(Handle, seed)
        IN  Becomes(h, Call("set_seed", seed, 0, 0, NoDistribution, Quiet(h)), track)

DoSetOffset(track) ==
    \E offset \in Offsets :
        LET h == set_offset(Handle, offset)
        IN  Becomes(h, Call("set_offset", offset, 0, 0, NoDistribution, Quiet(h)), track)

DoInit(outcomes, track) ==
    \E launch \in outcomes :
        LET r == init(Handle, launch[1])
        IN  Becomes(r.h, Call("init", 0, 0, 0, NoDistribution, r), track)

DoGenerate(dists, max_n, max_addr, max_drawn, outcomes, track) ==
    \E d \in dists, addr \in 0 .. max_addr, n \in 0 .. max_n, launch \in outcomes :
        LET r == generate(Handle, addr, n, d, launch[1], launch[2])
        IN  /\ MayDraw(r.h, max_drawn)
            /\ Becomes(r.h, Call("generate", 0, addr, n, d, r), track)

\* The Poisson transform has output_width 1: every buffer address is aligned.
DoGeneratePoisson(max_n, outcomes, track) ==
    \E lambda \in Lambdas, n \in 0 .. max_n, launch \in outcomes :
        LET r == generate_poisson(Handle, 0, n, lambda, launch[1], launch[2])
        IN  /\ MayDraw(r.h, MaxDrawn)
            /\ Becomes(r.h, Call("generate_poisson", lambda, 0, n,
                                 poisson_distribution(lambda), r), track)

\* The handle's life cycle: every operation, launch failures included.  The
\* transforms are one of output_width 2 and, through generate_poisson, one of
\* output_width 1.
HostDistributions == {mrg_uniform_distribution_ushort}
RunDistributions == {mrg_uniform_distribution_uint, mrg_uniform_distribution_ushort}

Reset == DoReset(FALSE)
SetSeed == DoSetSeed(FALSE)
SetOffset == DoSetOffset(FALSE)
InitCall == DoInit(LaunchOutcomes, FALSE)
Generate == DoGenerate(HostDistributions, MaxHostN, MaxHostAddr, MaxDrawn, LaunchOutcomes, FALSE)
GeneratePoisson == DoGeneratePoisson(MaxHostN, LaunchOutcomes, FALSE)

Next ==
    \/ Reset
    \/ SetSeed
    \/ SetOffset
    \/ InitCall
    \/ Generate
    \/ GeneratePoisson

Spec == Init /\ [][Next]_vars

\* One generation run of any length, transform and alignment on a freshly
\* constructed handle; a lane draws at most twice per value asked for.
FirstGenerate ==
    /\ last.op = "construct"
    /\ DoGenerate(Distributions, MaxN, MaxAddr, 2 * MaxN, {<<TRUE, TRUE>>}, FALSE)

KernelNext == FirstGenerate

KernelSpec == Init /\ [][KernelNext]_vars

\* ------------------------------------------------- one kernel run by lanes
\* generate on a freshly constructed handle: init() seeds the engines, then
\* the generation kernel is dispatched; its lanes run in any order.
GridMis == misalignment(grid.addr, grid.d.output_width)
GridHead == head_size(grid.n, GridMis)
GridTail == tail_size(grid.n, GridHead, grid.d.output_width)
GridVecN == vec_n(grid.n, GridHead, grid.d.output_width)

LaneLaunch ==
    /\ last.op = "construct"
    /\ ~grid.running
    /\ \E d \in Distributions, addr \in Addrs, n \in 0 .. MaxN :
          LET i == init(Handle, TRUE)
          IN  /\ m_engines_initialized' = i.h.m_engines_initialized
              /\ m_engines' = i.h.m_engines
              /\ seeded' = i.init_args
              /\ last' = Call("generate", 0, addr, n, d,
                              [i EXCEPT !.kernels = Append(@, "generate_kernel"),
                                        !.gen_start = <<i.h.m_engines>>])
              /\ grid' = dispatched(i.h.m_engines, addr, n, d)
              /\ UNCHANGED <<m_seed, m_offset, m_poisson, orig, m_stream>>

LaneAt(id, pc) == grid.running /\ grid.pc[id] = pc

LaneStays == UNCHANGED <<m_seed, m_offset, m_engines_initialized, m_engines,
                         m_poisson, last, seeded, orig, m_stream>>

\* while(index < vec_n): the test holds, one pass through the body.
LaneLoop ==
    \E id \in Lanes :
        /\ LaneAt(id, "loop")
        /\ grid.lane[id].index < GridVecN
        /\ grid' = lane_moved(grid, id,
                              loop_iteration(grid.lane[id], grid.d, GridMis, NumLanes),
                              "loop")
        /\ LaneStays

\* The test fails: on to the head and tail, or past them.
LaneExit ==
    \E id \in Lanes :
        /\ LaneAt(id, "loop")
        /\ ~(grid.lane[id].index < GridVecN)
        /\ grid' = lane_moved(grid, id, grid.lane[id],
                              IF designated(grid.lane[id], grid.d, GridVecN)
                              THEN "head" ELSE "save")
        /\ LaneStays

LaneHead ==
    \E id \in Lanes :
        /\ LaneAt(id, "head")
        /\ grid' = lane_moved(grid, id, head_write(grid.lane[id], grid.d, GridHead), "tail")
        /\ LaneStays

LaneTail ==
    \E id \in Lanes :
        /\ LaneAt(id, "tail")
        /\ grid' = lane_moved(grid, id,
                              tail_write(grid.lane[id], grid.d, grid.n, GridTail), "save")
        /\ LaneStays

\* engines[engine_id] = engine;
LaneSave ==
    \E id \in Lanes :
        /\ LaneAt(id, "save")
        /\ m_engines' = [m_engines EXCEPT ![id] = grid.lane[id].engine]
        /\ grid' = lane_moved(grid, id, grid.lane[id], "done")
        /\ UNCHANGED <<m_seed, m_offset, m_engines_initialized, m_poisson, last, seeded, orig,
                       m_stream>>

LaneNext ==
    \/ LaneLaunch
    \/ LaneLoop
    \/ LaneExit
    \/ LaneHead
    \/ LaneTail
    \/ LaneSave

LaneSpec == Init /\ [][LaneNext]_vars

\* ------------------------------------------- host calls ahead of the device
\* The host calls return at once; the device executes the kernels of the
\* stream one after the other, in the order of their dispatch, at any time.
\* The handle as the host sees it, its engines taken as m_stream.sync.
SyncHandle ==
    IF m_stream.sync = <<>> THEN Handle
    ELSE [Handle EXCEPT !.m_engines = m_stream.sync[1]]

\* A host call that dispatches nothing and leaves the handle as h: the
\* members change, the device
\* memory and the stream's kernels stay.
HostCall(h) ==
    /\ m_seed' = h.m_seed
    /\ m_offset' = h.m_offset
    /\ m_engines_initialized' = h.m_engines_initialized
    /\ m_stream' = [m_stream EXCEPT !.pending = overtaken(@)]
    /\ UNCHANGED <<m_engines, m_poisson, last, seeded, orig, grid>>

AsyncReset == HostCall(reset(Handle))

AsyncSetSeed == \E seed \in SeedInputs : HostCall(set_seed(Handle, seed))

AsyncSetOffset ==
    \E offset \in Offsets : HostCall(set_offset(Handle, offset))

\* generate: init() if needed, the generation launch, and the return.  The
\* buffers are aligned and hold one value or as many as the runs allow.
AsyncGenerate ==
    \E d \in HostDistributions, addr \in {0}, n \in {1, MaxHostN} :
        LET r == generate(SyncHandle, addr, n, d, TRUE, TRUE)
        IN  /\ MayDraw(r.h, MaxDrawn)
            /\ m_stream.dispatched + Len(r.kernels) <= MaxDispatched
            /\ m_engines_initialized' = r.h.m_engines_initialized
            /\ m_stream' = [m_stream EXCEPT
                              !.pending = overtaken(@) \o dispatches(r, addr, n, d),
                              !.sync = <<r.h.m_engines>>,
                              !.dispatched = @ + Len(r.kernels)]
            /\ UNCHANGED <<m_seed, m_offset, m_engines, m_poisson, last, seeded, orig, grid>>

\* The device executes the oldest pending kernel of the stream.
DeviceExecute ==
    /\ m_stream.pending # <<>>
    /\ LET k == Head(m_stream.pending)
           x == execute(k, m_engines)
       IN  /\ m_engines' = x.engines
           /\ m_stream' = [m_stream EXCEPT
                             !.pending = Tail(@),
                             !.done = IF k.kernel = "generate_kernel"
                                      THEN <<[stored |-> Len(x.writes), behind |-> k.behind]>>
                                      ELSE @]
    /\ UNCHANGED <<m_seed, m_offset, m_engines_initialized, m_poisson, last, seeded, orig, grid>>

AsyncNext ==
    \/ AsyncReset
    \/ AsyncSetSeed
    \/ AsyncSetOffset
    \/ AsyncGenerate
    \/ DeviceExecute

AsyncSpec == Init /\ [][AsyncNext]_vars

\* Runs whose launches succeed, remembering the first run after each seeding.
RunReset == DoReset(TRUE)
RunGenerate == DoGenerate(RunDistributions, MaxHostN, MaxHostAddr, MaxDrawn, {<<TRUE, TRUE>>}, TRUE)

RunNext ==
    \/ RunReset
    \/ RunGenerate

RunSpec == Init /\ [][RunNext]_vars

TypeOK ==
    /\ m_seed \in Nat
    /\ m_offset \in Offsets
    /\ m_engines_initialized \in BOOLEAN
    /\ DOMAIN m_engines = Lanes
    /\ Len(seeded) <= 1
    /\ Len(orig) <= 1

\* ------------------------------------------------------------- properties
\* The generation run the last call made: its geometry and its buffer.
LastMis == misalignment(last.addr, last.d.output_width)
LastHead == head_size(last.n, LastMis)
LastTail == tail_size(last.n, LastHead, last.d.output_width)
LastVecN == vec_n(last.n, LastHead, last.d.output_width)
LastData == data_after(last.writes, last.n)

StoresAt(k) == {i \in DOMAIN last.writes : last.writes[i].pos = k}
Regions == {last.writes[i].region : i \in DOMAIN last.writes}

RECURSIVE SumOver(_, _)
SumOver(f, id) == IF id = NumLanes THEN 0 ELSE f[id] + SumOver(f, id + 1)

\* C1: one generate call stores to every buffer position in [0, n) exactly
\* once and to no position outside [0, n), whatever n, the start address,
\* the output width and the lanes.
C1_EveryPositionOnce ==
    RanGenerate(last) =>
        /\ \A i \in DOMAIN last.writes : last.writes[i].pos \in 0 .. (last.n - 1)
        /\ \A k \in 0 .. (last.n - 1) : Cardinality(StoresAt(k)) = 1

\* A run that has a head, a vectorized body longer than the grid, and a tail.
C1_Witness ==
    /\ RanGenerate(last)
    /\ Regions = {"head", "vec", "tail"}
    /\ LastVecN > NumLanes

\* The reference generation: no head, element k is component k mod output_width
\* of transform invocation k div output_width, and invocation g is the
\* (g div lanes)-th one of lane g mod lanes.
reference_input(e, j, input_width) ==
    [i \in 1 .. input_width |-> [seed |-> e.seed, k |-> e.pos + j * input_width + (i - 1)]]

reference_generate(engines, n, d) ==
    [k \in 0 .. (n - 1) |->
        LET g == k \div d.output_width
            e == engines[g % NumLanes]
        IN  distribution(d, reference_input(e, g \div NumLanes, d.input_width))
                [(k % d.output_width) + 1]]

\* C2: the n values of a generate call equal, element for element, those of
\* the reference generation from the same engines, for every start address.
C2_MatchesReference ==
    RanGenerate(last) =>
        LastData = reference_generate(last.gen_start[1], last.n, last.d)

\* C3: a generate call of n values draws, over all lanes,
\* ceil(n / output_width) * input_width raw values, and every transform
\* invocation draws input_width of them.
C3_DrawCount ==
    RanGenerate(last) =>
        /\ SumOver(last.draws, 0) =
              ((last.n + last.d.output_width - 1) \div last.d.output_width)
                  * last.d.input_width
        /\ \A id \in Lanes : last.draws[id] = last.calls[id] * last.d.input_width

\* A second, independent run: a fresh handle with the same seed and offset
\* generating into a buffer that starts at addr.
independent_run(addr) ==
    LET h == rocrand_mrg32k3a(m_seed, m_offset, [id \in Lanes |-> CHOOSE e \in UninitEngines : TRUE])
        r == generate(h, addr, last.n, last.d, TRUE, TRUE)
    IN  data_after(r.writes, last.n)

\* C4: two independent runs with the same seed, offset, lanes, transform and
\* length produce the same values, wherever their buffers start.
C4_Deterministic ==
    (RanInit(last) /\ RanGenerate(last)) =>
        \A addr \in Addrs : independent_run(addr) = LastData

\* C5: after any generate calls, reset() followed by generate(n) writes the
\* values of the first generate(n) after the last seeding, given the same
\* seed, offset, transform and buffer.
C5_ResetReproduces ==
    ( /\ last.op = "generate"
      /\ last.prev = "reset"
      /\ RanGenerate(last)
      /\ last.ref # <<>> ) =>
        \A r \in {last.ref[1]} :
            ( /\ r.seed = m_seed
              /\ r.offset = m_offset
              /\ r.n = last.n
              /\ r.d = last.d
              /\ r.addr = last.addr ) => LastData = r.out

\* reset() then generate(n) repeating a first run that other runs followed.
C5_Witness ==
    /\ last.op = "generate"
    /\ last.prev = "reset"
    /\ RanGenerate(last)
    /\ last.ref # <<>>
    /\ last.n = MaxHostN
    /\ ~last.ref[1].only
    /\ last.ref[1].seed = m_seed
    /\ last.ref[1].offset = m_offset
    /\ last.ref[1].n = last.n
    /\ last.ref[1].d = last.d
    /\ last.ref[1].addr = last.addr

\* C6: the initialization flag is clear after construction, set by a
\* successful init(), cleared by set_seed, set_offset and reset, and changed by
\* nothing else: generate changes it only through the init() it calls.
C6_Step ==
    /\ last.op = "construct" => ~m_engines_initialized
    /\ last'.op \in {"reset", "set_seed", "set_offset"} => ~m_engines_initialized'
    /\ (last'.op = "init" /\ last'.status = ROCRAND_STATUS_SUCCESS) => m_engines_initialized'
    /\ (last'.op = "init" /\ last'.status # ROCRAND_STATUS_SUCCESS) =>
          m_engines_initialized' = m_engines_initialized
    /\ last'.op \in GenerateOps =>
          m_engines_initialized' = (m_engines_initialized \/ RanInit(last'))

C6_FlagStateMachine == [][C6_Step]_vars

\* set_offset on a handle whose engines had been seeded.
C6_Witness ==
    /\ last.op = "set_offset"
    /\ ~m_engines_initialized
    /\ seeded # <<>>
    /\ \E id \in Lanes : m_engines[id].pos > mrg32k3a_device_engine(m_engines[id].seed, id, seeded[1].offset).pos

\* C7: init() on an initialized handle launches nothing, leaves the engines
\* and succeeds; generate on an uninitialized handle launches the
\* initialization once, before the generation kernel; so a generate call
\* writes the same values and leaves the same handle whether or not init()
\* was called before it or before the call preceding it.
C7_Step ==
    /\ (last'.op = "init" /\ m_engines_initialized) =>
          /\ last'.kernels = <<>>
          /\ m_engines' = m_engines
          /\ last'.status = ROCRAND_STATUS_SUCCESS
    /\ (last'.op \in GenerateOps /\ ~m_engines_initialized
          /\ last'.status = ROCRAND_STATUS_SUCCESS) =>
          last'.kernels = <<"init_engines_kernel", "generate_kernel">>

C7_Between ==
    {[op |-> "none", arg |-> 0], [op |-> "reset", arg |-> 0]}
        \cup {[op |-> "set_seed", arg |-> seed] : seed \in SeedInputs}
        \cup {[op |-> "set_offset", arg |-> offset] : offset \in Offsets}

C7_Apply(b, h) ==
    IF b.op = "reset" THEN reset(h)
    ELSE IF b.op = "set_seed" THEN set_seed(h, b.arg)
    ELSE IF b.op = "set_offset" THEN set_offset(h, b.arg)
    ELSE h

\* After a step of init(): b; generate(...) writes and leaves what it would
\* have without that init(), b being one call or none.
C7_InitInserted ==
    (last'.op = "init" /\ Handle' # Handle) =>
        \A d \in HostDistributions, b \in C7_Between :
            LET with == generate(C7_Apply(b, Handle'), 0, MaxHostN, d, TRUE, TRUE)
                without == generate(C7_Apply(b, Handle), 0, MaxHostN, d, TRUE, TRUE)
            IN  /\ with.writes = without.writes
                /\ with.h = without.h

C7_InitIdempotent == [][C7_Step /\ C7_InitInserted]_vars

\* init() called on an initialized handle whose engines have advanced.
C7_Witness ==
    /\ last.op = "init"
    /\ last.kernels = <<>>
    /\ last.status = ROCRAND_STATUS_SUCCESS
    /\ m_engines_initialized
    /\ \E id \in Lanes : Drawn(Handle, id) > 0

C9_SeedNonZero ==
    /\ m_seed # 0
    /\ seeded # <<>> => seeded[1].seed # 0

\* A seeding with the default seed, which only a zero seed given to the
\* constructor or to set_seed produces.
C9_Witness ==
    /\ m_seed = ROCRAND_MRG32K3A_DEFAULT_SEED
    /\ RanInit(last)
    /\ seeded = <<[seed |-> ROCRAND_MRG32K3A_DEFAULT_SEED, offset |-> m_offset]>>

\* C10: generate_poisson with lambda <= 0 returns the invalid-parameter
\* status, launches no kernel, stores nothing, and leaves the engines and the
\* initialization flag.
C10_Step ==
    (last'.op = "generate_poisson" /\ last'.arg <= 0) =>
        /\ last'.status = ROCRAND_STATUS_OUT_OF_RANGE
        /\ last'.kernels = <<>>
        /\ last'.writes = <<>>
        /\ m_engines' = m_engines
        /\ m_engines_initialized' = m_engines_initialized

C10_PoissonRejected == [][C10_Step]_vars

\* A rejected generate_poisson on a handle that generate would have seeded.
C10_Witness ==
    /\ last.op = "generate_poisson"
    /\ last.arg <= 0
    /\ last.status = ROCRAND_STATUS_OUT_OF_RANGE
    /\ ~m_engines_initialized

\* The launch that failed in the call just made: the initialization launch
\* when the handle was not initialized and no initialization kernel ran,
\* the generation launch otherwise.
C11_InitLaunchFailed ==
    /\ last'.op \in {"init"} \cup GenerateOps
    /\ last'.status = ROCRAND_STATUS_LAUNCH_FAILURE
    /\ ~m_engines_initialized
    /\ ~RanInit(last')

C11_GenerateLaunchFailed ==
    /\ last'.op \in GenerateOps
    /\ last'.status = ROCRAND_STATUS_LAUNCH_FAILURE
    /\ (m_engines_initialized \/ RanInit(last'))

\* C11: a failed initialization launch, in init() or in generate, returns the
\* launch-failure status, leaves the handle uninitialized, dispatches no
\* generation kernel, and a later generate launches the initialization again;
\* a failed generation launch leaves the handle initialized with its seed and
\* offset; a call that reports a launch failure has stored nothing.
C11_Step ==
    /\ last'.status = ROCRAND_STATUS_LAUNCH_FAILURE =>
          /\ C11_InitLaunchFailed \/ C11_GenerateLaunchFailed
          /\ ~RanGenerate(last')
          /\ last'.writes = <<>>
          /\ m_seed' = m_seed
          /\ m_offset' = m_offset
    /\ C11_InitLaunchFailed =>
          /\ ~m_engines_initialized'
          /\ last'.kernels = <<>>
          /\ m_engines' = m_engines
          /\ \A d \in HostDistributions :
                LET retry == generate(Handle', 0, MaxHostN, d, TRUE, TRUE)
                IN  /\ retry.status = ROCRAND_STATUS_SUCCESS
                    /\ retry.kernels = <<"init_engines_kernel", "generate_kernel">>
                    /\ retry.init_args = <<[seed |-> m_seed, offset |-> m_offset]>>
    /\ C11_GenerateLaunchFailed =>
          /\ m_engines_initialized'
          /\ m_engines' = IF RanInit(last')
                          THEN init_engines_kernel(m_engines, m_seed, m_offset)
                          ELSE m_engines

C11_LaunchFailureReturned == [][C11_Step]_vars

\* A generate whose initialization launch failed on a handle that an earlier
\* call had seeded and a reset had cleared.
C11_Witness ==
    /\ last.op = "generate"
    /\ last.status = ROCRAND_STATUS_LAUNCH_FAILURE
    /\ ~m_engines_initialized
    /\ seeded # <<>>
    /\ \E id \in Lanes : Drawn(Handle, id) > 0

\* The raw draws behind the values a lane stored in call c.
EmittedBy(c, id) ==
    UNION {{c.writes[i].val.in[j] : j \in DOMAIN c.writes[i].val.in} :
              i \in {i \in DOMAIN c.writes : c.writes[i].lane = id}}

\* The engines the generation kernel of the call just made has to start
\* from: the stored ones, reseeded if the call had to initialize them.
C12_Start ==
    IF RanInit(last') THEN init_engines_kernel(m_engines, m_seed', m_offset')
    ELSE m_engines

\* C12: a generate call starts every lane from its stored engine, stores
\* back that engine advanced by the lane's raw draws of the call, and emits
\* exactly the draws between the two; calls that run no kernel leave the
\* stored engines.  So the draws of successive calls on one seeding are
\* successive stretches of the lane's stream, and none is emitted twice.
C12_Step ==
    /\ RanGenerate(last') =>
          \A id \in Lanes :
              /\ last'.gen_start[1][id] = C12_Start[id]
              /\ m_engines'[id] = [C12_Start[id] EXCEPT !.pos = @ + last'.draws[id]]
              /\ EmittedBy(last', id) =
                    {[seed |-> C12_Start[id].seed, k |-> p] :
                        p \in C12_Start[id].pos .. (m_engines'[id].pos - 1)}
    /\ (~RanGenerate(last') /\ ~RanInit(last')) => m_engines' = m_engines

C12_EngineCarried == [][C12_Step]_vars

\* A generate call in which a lane that had drawn in an earlier call on the
\* same seeding draws again.
C12_Witness ==
    /\ RanGenerate(last)
    /\ ~RanInit(last)
    /\ \E id \in Lanes :
          /\ last.draws[id] > 0
          /\ last.gen_start[1][id].pos > mrg32k3a_device_engine(m_seed, id, m_offset).pos
          /\ EmittedBy(last, id) # {}

\* The first len raw draws of lane id after a seeding with the handle's seed
\* and offset.
Prefix(id, len) ==
    LET e == init_engines_kernel(m_engines, m_seed, m_offset)[id]
        g == fill_input(e, <<>>, len)
    IN  {g.input[i] : i \in DOMAIN g.input}

\* C13: two different lanes seeded from the same seed and offset emit no raw
\* draw in common, whatever prefix of its sub-stream each emits, up to the
\* length of one sub-stream; and the draws the lanes made in a call are
\* such prefixes.
C13_StreamsIndependent ==
    (RanInit(last) /\ RanGenerate(last)) =>
        \A i \in Lanes, j \in Lanes :
            i # j =>
                /\ \A p \in 0 .. SubseqLen, q \in 0 .. SubseqLen :
                      Prefix(i, p) \cap Prefix(j, q) = {}
                /\ last.draws[i] <= SubseqLen
                /\ EmittedBy(last, i) = Prefix(i, last.draws[i])
                /\ EmittedBy(last, i) \cap EmittedBy(last, j) = {}

\* A call in which every lane emitted several raw draws.
C13_Witness ==
    /\ RanInit(last)
    /\ RanGenerate(last)
    /\ \A id \in Lanes : Cardinality(EmittedBy(last, id)) >= 3

\* The whole kernel run of the grid in flight, lane after lane.
GridSequential == generate_kernel(grid.start, grid.addr, grid.n, grid.d)

GridDone == grid.running /\ \A id \in Lanes : grid.pc[id] = "done"

\* C15: while the lanes of one generate call run, in whatever order their
\* steps are taken, no buffer position has been stored to by two different
\* lanes, and no lane stores a vectorized group onto a head or tail slot;
\* when all lanes are done the buffer and the engines are those of the lanes
\* run one after the other.
C15_NoSharedPosition ==
    grid.running =>
        /\ \A k \in DOMAIN grid.writers : Cardinality(grid.writers[k]) <= 1
        /\ \A i \in Lanes, j \in Lanes :
              \A a \in DOMAIN grid.lane[i].writes, b \in DOMAIN grid.lane[j].writes :
                  (grid.lane[i].writes[a].pos = grid.lane[j].writes[b].pos) =>
                      (i = j /\ a = b)
        /\ GridDone =>
              /\ grid.data = data_after(GridSequential.writes, grid.n)
              /\ m_engines = GridSequential.engines

\* All lanes done after a run with a head, a tail and a vectorized body
\* longer than the grid, in which every lane has stored.
C15_Witness ==
    /\ GridDone
    /\ GridHead > 0
    /\ GridTail > 0
    /\ GridVecN > NumLanes
    /\ \A id \in Lanes : grid.lane[id].writes # <<>>

\* The stores of lane id so far that went to the given region, as indices
\* into the lane's stores.
RegionStores(id, region) ==
    {a \in DOMAIN grid.lane[id].writes : grid.lane[id].writes[a].region = region}

\* The raw draws behind the lane's stores to a region.
RegionInputs(id, region) ==
    {grid.lane[id].writes[a].val.in : a \in RegionStores(id, region)}

GridDesignated == GridVecN % NumLanes

\* C16: of the lanes that have left the grid-stride loop, exactly the lane
\* vec_n mod L has index = vec_n; only that lane, and only for an output
\* width above 1, stores to head or tail slots; it stores the head before
\* the tail, and the head, the tail and every vectorized group come from
\* transform invocations of their own.
C16_OneDesignatedLane ==
    grid.running =>
        /\ \A id \in Lanes :
              /\ grid.lane[id].index % NumLanes = id
              /\ grid.pc[id] # "loop" =>
                    (grid.lane[id].index = GridVecN <=> id = GridDesignated)
              /\ (grid.pc[id] \in {"head", "tail"}
                    \/ RegionStores(id, "head") \cup RegionStores(id, "tail") # {}) =>
                    (id = GridDesignated /\ grid.d.output_width > 1)
        /\ \A a \in RegionStores(GridDesignated, "head"),
              b \in RegionStores(GridDesignated, "tail") : a < b
        /\ \A r \in {"head", "tail"} :
              /\ Cardinality(RegionInputs(GridDesignated, r)) <= 1
              /\ \A q \in {"vec", "head", "tail"} \ {r} :
                    RegionInputs(GridDesignated, r) \cap RegionInputs(GridDesignated, q) = {}
        /\ (GridDone /\ grid.d.output_width > 1) =>
              /\ Cardinality(RegionStores(GridDesignated, "head")) = GridHead
              /\ Cardinality(RegionStores(GridDesignated, "tail")) = GridTail
              /\ Cardinality({id \in Lanes : grid.lane[id].index = GridVecN}) = 1

\* A finished run with a head and a tail whose vectorized body is longer
\* than the grid and whose head and tail fell to a lane other than the first.
C16_Witness ==
    /\ GridDone
    /\ GridVecN >= NumLanes
    /\ GridDesignated # 0
    /\ RegionStores(GridDesignated, "head") # {}
    /\ RegionStores(GridDesignated, "tail") # {}
    /\ RegionStores(GridDesignated, "vec") # {}

\* The stores of the last call that went to the given region.
LastRegion(region) == {i \in DOMAIN last.writes : last.writes[i].region = region}

\* C17: for every n and buffer address the head, the vectorized groups and
\* the tail add up to n; the head is min(n, misalignment) and shorter than a
\* group, the tail is shorter than a group, an aligned buffer has no head,
\* and n <= misalignment leaves neither groups nor tail; the kernel stores
\* that many values to each region.
C17_SplitExact ==
    RanGenerate(last) =>
        /\ LastHead + LastVecN * last.d.output_width + LastTail = last.n
        /\ LastHead = Min(last.n, LastMis)
        /\ LastHead >= 0 /\ LastHead < last.d.output_width
        /\ LastTail >= 0 /\ LastTail < last.d.output_width
        /\ LastVecN >= 0
        /\ (last.addr % last.d.output_width = 0) => LastHead = 0
        /\ (last.n <= LastMis) => (LastVecN = 0 /\ LastTail = 0)
        /\ last.d.output_width > 1 =>
              /\ Cardinality(LastRegion("head")) = LastHead
              /\ Cardinality(LastRegion("tail")) = LastTail
        /\ Cardinality(LastRegion("vec")) = LastVecN * last.d.output_width

\* A run on a misaligned buffer of groups of four with a head of three, full
\* groups and a tail.
C17_Witness ==
    /\ RanGenerate(last)
    /\ last.d.output_width = 4
    /\ LastHead = 3
    /\ LastVecN >= 1
    /\ LastTail >= 1

\* The lanes that took the step: those whose position in the kernel or whose
\* locals changed.
Stepped ==
    {id \in Lanes : /\ grid.running
                    /\ \/ grid'.pc[id] # grid.pc[id]
                       \/ grid'.lane[id] # grid.lane[id]}

\* C18: a launch has as many threads as the engine array has slots, with
\* different engine ids for different threads, all inside the array; the
\* initialization seeds every engine i from the handle's seed, i and the
\* handle's offset; a lane of the generation kernel starts from the engine
\* of its own index and a step of it changes no other lane and no engine
\* but, at its end, its own.
C18_Step ==
    /\ \A sh \in GridShapes :
          /\ Cardinality(Threads(sh)) = m_engines_size(sh)
          /\ {engine_id_of(sh, t[1], t[2]) : t \in Threads(sh)} = DOMAIN m_engines
          /\ \A t \in Threads(sh), u \in Threads(sh) :
                engine_id_of(sh, t[1], t[2]) = engine_id_of(sh, u[1], u[2]) => t = u
    /\ (~grid.running /\ grid'.running) =>
          /\ RanInit(last')
          /\ DOMAIN grid'.lane = DOMAIN m_engines
          /\ \A i \in DOMAIN m_engines :
                /\ m_engines'[i] = mrg32k3a_device_engine(m_seed, i, m_offset)
                /\ grid'.lane[i].engine_id = i
                /\ grid'.lane[i].engine = m_engines'[i]
                /\ \A j \in DOMAIN m_engines :
                      i # j => m_engines'[i] # m_engines'[j]
    /\ grid.running =>
          /\ Cardinality(Stepped) = 1
          /\ \A j \in Lanes \ Stepped : m_engines'[j] = m_engines[j]
          /\ \A id \in Stepped :
                m_engines'[id] = IF grid'.pc[id] = "done" THEN grid.lane[id].engine
                                 ELSE m_engines[id]

C18_EnginesOwnLane == [][C18_Step]_vars

\* All lanes done, every one of them having drawn and saved its engine.
C18_Witness ==
    /\ GridDone
    /\ \A id \in Lanes :
          /\ grid.lane[id].draws > 0
          /\ m_engines[id] # grid.start[id]
          /\ grid.start[id] = mrg32k3a_device_engine(m_seed, id, m_offset)

\* The lane the head and tail of the last call fell to; there is none for an
\* output width of 1.
LastDesignated(id) == last.d.output_width > 1 /\ id = LastVecN % NumLanes

LastUnchanged(id) ==
    /\ m_engines[id] = last.gen_start[1][id]
    /\ last.draws[id] = 0

\* C19 as stated: the engine is unchanged for every lane with index >= vec_n
\* other than the designated lane, and for the designated lane whenever
\* head_size = 0 and tail_size = 0.
C19_FrameAsStated ==
    RanGenerate(last) =>
        \A id \in Lanes :
            ( \/ (id >= LastVecN /\ ~LastDesignated(id))
              \/ (LastDesignated(id) /\ LastHead = 0 /\ LastTail = 0) ) =>
                LastUnchanged(id)

\* C19, amended: a generate call leaves unchanged the engine of every lane
\* that makes no transform invocation in it, and these are exactly the lanes
\* with index >= vec_n that are not the designated lane or have
\* head_size = 0 and tail_size = 0: every lane when n = 0, every lane with
\* index >= n for an output width of 1.  A designated lane with index below
\* vec_n has run the loop and has advanced.
C19_FrameAmended ==
    RanGenerate(last) =>
        \A id \in Lanes :
            /\ last.calls[id] = 0 => LastUnchanged(id)
            /\ last.calls[id] = 0 <=>
                  ( /\ id >= LastVecN
                    /\ (~LastDesignated(id) \/ (LastHead = 0 /\ LastTail = 0)) )
            /\ last.n = 0 => LastUnchanged(id)
            /\ (last.d.output_width = 1 /\ id >= last.n) => LastUnchanged(id)
            /\ (LastDesignated(id) /\ id < LastVecN) => ~LastUnchanged(id)

\* A run in which one lane drew and stored while the designated lane, with
\* neither head nor tail to store, made no invocation.
C19_Witness ==
    /\ RanGenerate(last)
    /\ \E id \in Lanes :
          /\ LastDesignated(id)
          /\ LastHead = 0 /\ LastTail = 0
          /\ last.calls[id] = 0
          /\ LastUnchanged(id)
    /\ \E id \in Lanes : last.calls[id] > 0

\* The generation kernel of the last call run again from the same engines
\* on a buffer that starts at addr.
LastKernelAt(addr) == generate_kernel(last.gen_start[1], addr, last.n, last.d)

\* C20: for a transform of output width 1, whatever the buffer address,
\* there is neither head nor tail, no store goes to a head or tail slot, the
\* values and the engines left are those of the same run at any other
\* address, and element k is stored by lane k mod L from that lane's
\* (k div L + 1)-th draw of the call.
C20_WidthOneAddressFree ==
    (RanGenerate(last) /\ last.d.output_width = 1) =>
        /\ LastMis = 0 /\ LastHead = 0 /\ LastTail = 0
        /\ LastVecN = last.n
        /\ Regions \subseteq {"vec"}
        /\ \A addr \in Addrs :
              /\ data_after(LastKernelAt(addr).writes, last.n) = LastData
              /\ LastKernelAt(addr).engines = m_engines
        /\ \A k \in 0 .. (last.n - 1) :
              \A i \in StoresAt(k) :
                  /\ last.writes[i].lane = k % NumLanes
                  /\ last.writes[i].val.in =
                        [j \in 1 .. last.d.input_width |->
                            [seed |-> last.gen_start[1][k % NumLanes].seed,
                             k |-> last.gen_start[1][k % NumLanes].pos
                                     + (k \div NumLanes) * last.d.input_width + (j - 1)]]
                  /\ last.d.input_width = 1

\* A run of output width 1 at an odd buffer address in which every lane
\* draws more than once.
C20_Witness ==
    /\ RanGenerate(last)
    /\ last.d.output_width = 1
    /\ last.addr % 2 = 1
    /\ \A id \in Lanes : last.draws[id] >= 2
    /\ \A k \in 0 .. (last.n - 1) : StoresAt(k) # {}

\* A step of the device: the oldest pending kernel left the stream.
C21_DeviceStep ==
    /\ m_stream.pending # <<>>
    /\ m_stream'.pending = Tail(m_stream.pending)
    /\ m_stream'.dispatched = m_stream.dispatched

\* What a pending kernel was dispatched with.
C21_Args(k) == [k EXCEPT !.behind = FALSE]

\* C21: host calls made while kernels of the handle are pending change
\* neither the device's engines nor what the pending kernels were
\* dispatched with; the engines change only when the device executes the
\* oldest pending kernel, so an initialization kernel dispatched after a
\* generation kernel runs after it; a generation kernel stores, whenever
\* it is executed and whatever the host called meanwhile, the values it
\* would have stored had its generate call waited for it; once the stream
\* is empty the engines are those of calls that waited.
C21_Step ==
    /\ C21_DeviceStep =>
          LET k == Head(m_stream.pending)
          IN  /\ m_engines' = execute(k, m_engines).engines
              /\ k.kernel = "generate_kernel" =>
                    execute(k, m_engines).writes = k.expect
              /\ <<m_seed', m_offset', m_engines_initialized'>> =
                    <<m_seed, m_offset, m_engines_initialized>>
    /\ ~C21_DeviceStep =>
          /\ m_engines' = m_engines
          /\ m_stream'.done = m_stream.done
          /\ Len(m_stream'.pending) >= Len(m_stream.pending)
          /\ \A i \in DOMAIN m_stream.pending :
                C21_Args(m_stream'.pending[i]) = C21_Args(m_stream.pending[i])
    /\ (m_stream'.pending = <<>> /\ m_stream'.sync # <<>>) =>
          m_engines' = m_stream'.sync[1]

C21_PendingUnaffected == [][C21_Step]_vars

\* A generation kernel has been executed after the host, while it was
\* pending, set another seed and called generate again; the initialization
\* kernel with the new seed is still pending behind it.
C21_Witness ==
    /\ m_stream.done # <<>>
    /\ m_stream.done[1].behind
    /\ m_stream.done[1].stored > 0
    /\ m_stream.pending # <<>>
    /\ Head(m_stream.pending).kernel = "init_engines_kernel"
    /\ Head(m_stream.pending).seed = m_seed
    /\ \E id \in Lanes : m_engines[id].seed # m_seed

====
